---- MODULE Spec2Model ----
(***************************************************************************)
(* Record-management dashboard (companies, locations, circuits).           *)
(*                                                                         *)
(* The module models three parts of the client:                            *)
(*   - the location edit form (LocationEditForm.tsx): field edits, the     *)
(*     submit handler (geocode, then mutate), the mutation and its         *)
(*     onSuccess callback;                                                 *)
(*   - the operations of lib/api.ts against the backend tables;            *)
(*   - the Locations page: five filters, the query keyed by them, the      *)
(*     query cache and the responses of its getLocations requests.         *)
(*                                                                         *)
(* Text is a sequence of one-character strings, so that trimming, string   *)
(* interpolation and pattern matching are computed, not assumed.           *)
(***************************************************************************)
EXTENDS Integers, Sequences, FiniteSets, TLC

VARIABLES
    companies,      \* backend table "companies": id -> row
    locations,      \* backend table "locations": id -> row
    circuits,       \* backend table "circuits": id -> row
    profiles,       \* backend table "user_profiles": id -> row
    authUser,       \* supabase.auth session: a user id, or Null
    console,        \* what the client has logged with console.error
    formOpen,       \* Locations.editingLocation # null: the edit form is mounted
    editedLocation, \* LocationEditForm: the location prop of the form last mounted
    formData,       \* LocationEditForm: useState formData
    nEdits,         \* number of change events handled by handleChange so far
    subs,           \* one record per submit event of the form, in order
    geoReqs,        \* geocodeAddress promises still pending
    muts,           \* mutations built by mutate(), in order (status only)
    updReqs,        \* updateLocation requests in flight
    curMut,         \* the mutation the form's observer follows (0: none)
    search, stateFilter, cityFilter, criticalityFilter, companyFilter,
    qcache,         \* query cache: query key -> query state
    getReqs,        \* getLocations requests in flight
    nChanges,       \* number of filter changes made so far
    apiCall,        \* the last finished call of an api.ts operation
    pcalls,         \* getCurrentUserProfile calls that run step by step, in order
    view,           \* Locations: useState view ('grid' | 'table')
    isModalOpen,    \* Locations: useState isModalOpen (the Add Location modal)
    addrValue,      \* AddressForm: the value prop
    isAutocompleteEnabled, isValidating, validationError,   \* AddressForm: useState
    validations,    \* AddressForm: one record per validateAddress call, in order
    isMapReady,     \* LocationMap: useState isMapReady
    mapLocations,   \* LocationMap: the locations prop
    selectedLocationId, \* LocationMap: the selectedLocationId prop
    onLocationSelect,   \* LocationMap: identity of the onLocationSelect prop
    dataSource,     \* the features of the map's point data source, in order
    clusterSource,  \* the features of the map's cluster data source, in order
    clickHandlers,  \* click listeners registered on the symbol layer, in order
    popups,         \* the popups that are open on the map, in order of opening
    activePopup,    \* LocationMap: useState activePopup (a popup id, or NoPopup)
    nPopups,        \* number of popups created by click listeners so far
    selectCalls,    \* the ids onLocationSelect has been called with, in order
    nUpdates        \* number of prop changes of the map so far

formVars ==
    <<formOpen, editedLocation, formData, nEdits, subs, geoReqs, muts, updReqs, curMut>>
filterVars == <<search, stateFilter, cityFilter, criticalityFilter, companyFilter, nChanges>>
pageVars == <<filterVars, qcache, getReqs>>
dbVars == <<companies, locations, circuits, profiles, authUser>>
uiVars == <<view, isModalOpen>>
addrVars == <<addrValue, isAutocompleteEnabled, isValidating, validationError, validations>>
mapVars ==
    <<isMapReady, mapLocations, selectedLocationId, onLocationSelect, dataSource,
      clusterSource, clickHandlers, popups, activePopup, nPopups, selectCalls, nUpdates>>
\* The state of the page's view controls, of AddressForm and of LocationMap.
compVars == <<uiVars, addrVars, mapVars>>
vars == <<dbVars, console, formVars, pageVars, apiCall, pcalls, compVars>>

----------------------------------------------------------------------------
(* Bounds *)

MaxSubmits == 2
MaxChanges == 3
MaxCalls == 2
MaxEdits == 3
MaxValidations == 2
MaxUpdates == 3
MaxPopups == 2

----------------------------------------------------------------------------
(* Text *)

Undefined == "undefined"
Null == "null"

Empty == << >>

Lower(c) ==
    CASE c = "A" -> "a"
      [] c = "B" -> "b"
      [] c = "T" -> "t"
      [] c = "X" -> "x"
      [] OTHER -> c

LowerText(s) == [i \in 1..Len(s) |-> Lower(s[i])]

\* A text column that holds SQL NULL (a value no text equals).
NullText == <<"null">>

\* text || fallback: null and '' are falsy.
TextOr(a, b) == IF a = NullText \/ a = Empty THEN b ELSE a

\* A numeric column that holds SQL NULL.
NullNumber == 0 - 1

\* number || fallback: null and 0 are falsy.
NumOr(a, b) == IF a = 0 \/ a = NullNumber THEN b ELSE a

\* { ...r, ...p }: object spread, the later object wins.
Spread(r, p) ==
    [k \in DOMAIN r \cup DOMAIN p |-> IF k \in DOMAIN p THEN p[k] ELSE r[k]]

----------------------------------------------------------------------------
(* Backend fixture: the rows the tables hold when the client starts. *)

ServerTime == [clock |-> "server"]
ClientTime == [clock |-> "client"]

Company1 ==
    [id |-> "c1", name |-> <<"A">>, street_address |-> <<"a">>,
     address_city |-> <<"b">>, address_state |-> <<"T", "X">>,
     address_zip |-> <<"7">>, address_country |-> <<"U">>, phone |-> <<"1">>,
     email |-> <<"e">>, website |-> NullText,
     created_at |-> ServerTime, updated_at |-> ServerTime]

Location1 ==
    [id |-> "l1", name |-> <<"A", "b">>, address |-> <<"a">>, city |-> <<"b">>,
     state |-> <<"T", "X">>, zip_code |-> <<"7">>, country |-> <<"U">>,
     criticality |-> "High", site_description |-> NullText,
     critical_processes |-> NullText, active_users |-> 0, num_servers |-> 0,
     hosted_applications |-> NullText, longitude |-> Null, latitude |-> Null,
     company_id |-> "c1", created_at |-> ServerTime, updated_at |-> ServerTime]

Location2 ==
    [id |-> "l2", name |-> <<"a", "_">>, address |-> <<"b">>, city |-> <<"a">>,
     state |-> <<"N">>, zip_code |-> <<"8">>, country |-> <<"U">>,
     criticality |-> "Low", site_description |-> <<"d">>,
     critical_processes |-> NullText, active_users |-> 1, num_servers |-> NullNumber,
     hosted_applications |-> NullText, longitude |-> Null, latitude |-> Null,
     company_id |-> "c1", created_at |-> ServerTime, updated_at |-> ServerTime]

\* A monthlycost that is SQL NULL.
NullCost == 0 - 1

Circuit1 ==
    [id |-> "k1", carrier |-> <<"A">>, type |-> <<"a">>, purpose |-> <<"b">>,
     status |-> "Active", bandwidth |-> <<"1">>, monthlycost |-> 7,
     static_ips |-> 0, upload_bandwidth |-> NullText,
     contract_start_date |-> NullText, contract_term |-> 0,
     contract_end_date |-> NullText, billing |-> <<"b">>,
     usage_charges |-> FALSE, installation_cost |-> 0, notes |-> NullText,
     location_id |-> "l1", created_at |-> ServerTime, updated_at |-> ServerTime]

\* The users the auth service knows.
Users == {"u1", "u2"}

Profile1 ==
    [id |-> "p1", user_id |-> "u1", role |-> "admin", first_name |-> NullText,
     last_name |-> NullText, email |-> NullText, phone |-> NullText,
     address |-> NullText, created_at |-> ServerTime, updated_at |-> ServerTime]

InitDb ==
    /\ companies = [i \in {"c1"} |-> Company1]
    /\ locations = [i \in {"l1", "l2"} |-> IF i = "l1" THEN Location1 ELSE Location2]
    /\ circuits = [i \in {"k1"} |-> Circuit1]
    /\ profiles = [i \in {"p1"} |-> Profile1]

----------------------------------------------------------------------------
(* The backend's query engine, as far as api.ts uses it: equality          *)
(* predicates, the or=(col.ilike.pattern,...) filter, ordering, and the    *)
(* embedded select that expands a foreign key.                             *)

UndefText == <<"undefined">>

TruthyText(t) == t # UndefText /\ t # NullText /\ t # Empty
TruthyStr(v) == v # Undefined /\ v # Null /\ v # ""

\* The characters of the model, in the order the backend sorts them.
Alphabet ==
    <<" ", "%", ",", "1", "7", "8", "A", "B", "N", "T", "U", "V", "X", "_",
      "a", "b", "d", "e">>

Rank(c) == CHOOSE i \in 1..Len(Alphabet) : Alphabet[i] = c

RECURSIVE TextLess(_, _)
TextLess(a, b) ==
    IF b = Empty THEN FALSE
    ELSE IF a = Empty THEN TRUE
    ELSE IF Head(a) = Head(b) THEN TextLess(Tail(a), Tail(b))
    ELSE Rank(Head(a)) < Rank(Head(b))

\* SQL ILIKE: % (and PostgREST's alias *) matches any run of characters,
\* _ matches any one character, every other character matches itself
\* without regard to case.
RECURSIVE ILike(_, _)
ILike(text, pattern) ==
    IF pattern = Empty THEN text = Empty
    ELSE IF Head(pattern) \in {"%", "*"}
         THEN \/ ILike(text, Tail(pattern))
              \/ text # Empty /\ ILike(Tail(text), pattern)
    ELSE /\ text # Empty
         /\ Head(pattern) = "_" \/ Lower(Head(pattern)) = Lower(Head(text))
         /\ ILike(Tail(text), Tail(pattern))

\* The parts of a filter string between its top-level commas.
RECURSIVE SplitOnComma(_)
SplitOnComma(str) ==
    IF \A i \in 1..Len(str) : str[i] # ","
    THEN <<str>>
    ELSE LET i == CHOOSE j \in 1..Len(str) :
                      str[j] = "," /\ \A k \in 1..(j - 1) : str[k] # ","
         IN <<SubSeq(str, 1, i - 1)>> \o SplitOnComma(SubSeq(str, i + 1, Len(str)))

\* The text columns of the tables, which an ilike condition may name.
TextColumns ==
    {"name", "address", "city", "state", "address_city", "address_state",
     "carrier", "type", "bandwidth"}

\* One condition of an or filter is column.ilike.pattern.
CondOk(part) ==
    /\ Len(part) >= 4
    /\ part[1] \in TextColumns
    /\ part[2] = "." /\ part[3] = "ilike" /\ part[4] = "."

OrFilterOk(str) ==
    LET parts == SplitOnComma(str)
    IN \A i \in 1..Len(parts) : CondOk(parts[i])

RowMatchesOr(row, str) ==
    LET parts == SplitOnComma(str)
    IN \E i \in 1..Len(parts) :
          /\ row[parts[i][1]] # NullText
          /\ ILike(row[parts[i][1]], SubSeq(parts[i], 5, Len(parts[i])))

NoOr == <<"none">>

\* A query as the client's query builder has composed it.
NewQuery == [or |-> NoOr, eq |-> {}]
WithOr(q, str) == [q EXCEPT !.or = str]
WithEq(q, col, val) == [q EXCEPT !.eq = @ \cup {<<col, val>>}]

QueryOk(q) == q.or = NoOr \/ OrFilterOk(q.or)

RowMatches(row, q) ==
    /\ q.or = NoOr \/ RowMatchesOr(row, q.or)
    /\ \A c \in q.eq : row[c[1]] = c[2]

\* order(col, { ascending: true }); rows of equal value in some fixed order.
RECURSIVE SortBy(_, _)
SortBy(rows, col) ==
    IF rows = {} THEN << >>
    ELSE LET first == CHOOSE r \in rows : \A o \in rows : ~TextLess(o[col], r[col])
         IN <<first>> \o SortBy(rows \ {first}, col)

SortByName(rows) == SortBy(rows, "name")

NoCompany == [id |-> Null, name |-> NullText]

\* company:companies(id, name)
ExpandCompany(row, cs) ==
    Spread(row, [company |->
        IF row.company_id \in DOMAIN cs
        THEN [id |-> cs[row.company_id].id, name |-> cs[row.company_id].name]
        ELSE NoCompany])

SelectLocations(q, ls, cs) ==
    SortByName({ExpandCompany(ls[i], cs) : i \in {j \in DOMAIN ls : RowMatches(ls[j], q)}})

----------------------------------------------------------------------------
(* lib/api.ts *)

Fulfilled(v) == [outcome |-> "fulfilled", value |-> v]
Rejected(e) == [outcome |-> "rejected", value |-> e]

\* `%${search}%`
Pattern(s) == <<"%">> \o s \o <<"%">>
Cond(col, s) == <<col, ".", "ilike", ".">> \o Pattern(s)

LocationsOr(s) ==
    Cond("name", s) \o <<",">> \o Cond("address", s) \o <<",">>
        \o Cond("city", s) \o <<",">> \o Cond("state", s)

\* The query getLocations composes from its filters.
LocationsQuery(filters) ==
    LET q0 == NewQuery
        q1 == IF TruthyText(filters.search) THEN WithOr(q0, LocationsOr(filters.search)) ELSE q0
        q2 == IF TruthyText(filters.state) THEN WithEq(q1, "state", filters.state) ELSE q1
        q3 == IF TruthyText(filters.city) THEN WithEq(q2, "city", filters.city) ELSE q2
        q4 == IF TruthyStr(filters.criticality)
              THEN WithEq(q3, "criticality", filters.criticality) ELSE q3
        q5 == IF TruthyStr(filters.company_id)
              THEN WithEq(q4, "company_id", filters.company_id) ELSE q4
    IN q5

\* getLocations: failed is the backend failing the request for a reason of
\* its own (network, permission); a filter it cannot parse fails it too.
getLocations(filters, failed, ls, cs) ==
    LET q == LocationsQuery(filters)
    IN IF failed \/ ~QueryOk(q)
       THEN Rejected("error")
       ELSE Fulfilled(SelectLocations(q, ls, cs))

updateLocationUnstamped(id, location) ==
    [table |-> "locations", id |-> id, payload |-> location]

\* updateLocation(id, location): the request it sends to the backend.
updateLocation(id, location) ==
    [table |-> "locations", id |-> id,
     payload |-> Spread(location, [updated_at |-> ClientTime])]

\* The backend applying .update(payload).eq('id', id).select().single():
\* failed is the backend failing the request; no row of that id fails it too.
UpdateOk(table, req, failed) == ~failed /\ req.id \in DOMAIN table

ApplyUpdate(table, req) == [table EXCEPT ![req.id] = Spread(@, req.payload)]

----------------------------------------------------------------------------
(* The query cache of the data-fetching library, for the 'locations'       *)
(* queries of the Locations page.                                          *)

QueryKey(s, st, ci, cr, co) == <<"locations", s, st, ci, cr, co>>

RECURSIVE TrimStart(_)
TrimStart(s) == IF s # Empty /\ Head(s) = " " THEN TrimStart(Tail(s)) ELSE s

RECURSIVE TrimEnd(_)
TrimEnd(s) ==
    IF s # Empty /\ s[Len(s)] = " " THEN TrimEnd(SubSeq(s, 1, Len(s) - 1)) ELSE s

\* String.prototype.trim
Trim(s) == TrimEnd(TrimStart(s))

\* The argument the page's queryFn passes to getLocations.
QueryParams(s, st, ci, cr, co) ==
    [search |-> IF TruthyText(s) THEN Trim(s) ELSE UndefText,
     state |-> st, city |-> ci, criticality |-> cr, company_id |-> co]

NewEntry == [status |-> "pending", hasData |-> FALSE, data |-> << >>,
             fetching |-> FALSE, invalidated |-> FALSE]

\* The observer of `key` asks for a fetch: a query already fetching is not
\* fetched again (requests are deduplicated by key).
StartFetch(cache, key) ==
    LET entry == IF key \in DOMAIN cache THEN cache[key] ELSE NewEntry
    IN [k \in DOMAIN cache \cup {key} |->
          IF k = key THEN [entry EXCEPT !.fetching = TRUE] ELSE cache[k]]

NeedsRequest(cache, key) == key \notin DOMAIN cache \/ ~cache[key].fetching

\* queryClient.invalidateQueries({ queryKey: ['locations'] }): every
\* locations query is marked invalidated.
MarkInvalidated(cache) == [k \in DOMAIN cache |-> [cache[k] EXCEPT !.invalidated = TRUE]]

\* The query takes the result of a request that was issued for `key`.
Settle(cache, key, result) ==
    [cache EXCEPT ![key] =
        IF result.outcome = "fulfilled"
        THEN [status |-> "success", hasData |-> TRUE, data |-> result.value,
              fetching |-> FALSE, invalidated |-> FALSE]
        ELSE [@ EXCEPT !.status = "error", !.fetching = FALSE]]

CurrentKey == QueryKey(search, stateFilter, cityFilter, criticalityFilter, companyFilter)

CurrentParams == QueryParams(search, stateFilter, cityFilter, criticalityFilter, companyFilter)

\* data: locations, rendered as locations || []
Displayed == IF CurrentKey \in DOMAIN qcache /\ qcache[CurrentKey].hasData
             THEN qcache[CurrentKey].data ELSE << >>

----------------------------------------------------------------------------
(* LocationEditForm *)

\* The location prop: the row the edit form was opened on.
FormLocation == Location1

\* useState initial value of formData
InitialFormData(location) ==
    [name |-> location.name,
     address |-> location.address,
     city |-> location.city,
     state |-> location.state,
     zip_code |-> location.zip_code,
     site_description |-> TextOr(location.site_description, Empty),
     critical_processes |-> TextOr(location.critical_processes, Empty),
     active_users |-> NumOr(location.active_users, 0),
     num_servers |-> NumOr(location.num_servers, 0),
     hosted_applications |-> TextOr(location.hosted_applications, Empty),
     country |-> location.country,
     criticality |-> location.criticality,
     company_id |-> location.company_id]

\* The change events the model raises on the form's own fields.
FieldEdits ==
    {<<"name", Empty>>, <<"name", <<"A", "b">>>>, <<"company_id", "">>,
     <<"company_id", "c1">>, <<"criticality", "Low">>, <<"criticality", "Medium">>,
     <<"site_description", <<"d">>>>, <<"hosted_applications", <<"e">>>>}

\* The addresses AddressForm reports through onChange.
Addresses ==
    {[street |-> <<"a">>, city |-> <<"b">>, state |-> <<"T", "X">>,
      zip_code |-> <<"7">>, country |-> <<"U">>],
     [street |-> <<"b">>, city |-> <<"a">>, state |-> <<"N", "V">>,
      zip_code |-> <<"8">>, country |-> <<"U">>]}

\* `${address}, ${city}, ${state} ${zip_code}`
FullAddress(f) ==
    f.address \o <<",", " ">> \o f.city \o <<",", " ">> \o f.state \o <<" ">> \o f.zip_code

\* What the geocoder can answer for an address: null, or its coordinates.
NotFound == [found |-> FALSE, longitude |-> Undefined, latitude |-> Undefined]

CoordsOf(address) ==
    IF Head(address) = "a"
    THEN [found |-> TRUE, longitude |-> "-97", latitude |-> "30"]
    ELSE [found |-> TRUE, longitude |-> "-119", latitude |-> "39"]

GeocodeAnswers(address) == {NotFound, CoordsOf(address)}

\* required on the company select, the name input and the criticality
\* select: the browser raises no submit event while one of them is empty.
FormValid(f) == f.company_id # "" /\ f.name # Empty /\ f.criticality # ""

\* useMutation: isPending
isPending == curMut # 0 /\ muts[curMut].status = "pending"

handleChangeFresh(f, name, value) ==
    Spread(InitialFormData(FormLocation), [k \in {name} |-> value])

\* handleChange: setFormData(prev => ({ ...prev, [name]: value }))
handleChange(f, name, value) == Spread(f, [k \in {name} |-> value])

HandleChange ==
    /\ formOpen
    /\ nEdits < MaxEdits
    /\ \E e \in FieldEdits : formData' = handleChange(formData, e[1], e[2])
    /\ formData' # formData
    /\ nEdits' = nEdits + 1
    /\ UNCHANGED <<dbVars, console, formOpen, editedLocation, compVars, subs, geoReqs, muts,
                   updReqs,
                   curMut, pageVars, apiCall, pcalls>>

\* AddressForm onChange
addressChange(f, a) ==
    Spread(f, [address |-> a.street, city |-> a.city, state |-> a.state,
               zip_code |-> a.zip_code, country |-> a.country])

AddressChange ==
    /\ formOpen
    /\ \E a \in Addresses : formData' = addressChange(formData, a)
    /\ formData' # formData
    /\ UNCHANGED <<dbVars, console, formOpen, editedLocation, compVars, nEdits, subs, geoReqs, muts,
                   updReqs, curMut,
                   pageVars, apiCall, pcalls>>

\* handleSubmit up to the call of geocodeAddress: the promise it leaves
\* pending, with the formData its then-callback has captured.
GeocodeCallOfProp(sid, f) ==
    [sid |-> sid, address |-> FullAddress(InitialFormData(FormLocation)), form |-> f]

GeocodeCall(sid, f) == [sid |-> sid, address |-> FullAddress(f), form |-> f]

HandleSubmit ==
    /\ formOpen
    /\ ~isPending
    /\ FormValid(formData)
    /\ Len(subs) < MaxSubmits
    /\ LET sid == Len(subs) + 1
           call == GeocodeCall(sid, formData)
       IN /\ subs' = Append(subs, [form |-> formData, asked |-> call.address,
                                   geo |-> "pending", coords |-> NotFound, nUpd |-> 0])
          /\ geoReqs' = geoReqs \cup {call}
    /\ UNCHANGED <<dbVars, console, formOpen, editedLocation, compVars, formData, nEdits, muts,
                       updReqs,
                   curMut,
                   pageVars, apiCall, pcalls>>

\* The variables the then-callback passes to mutate.
MutateVariables(f, coords) ==
    Spread(f, [longitude |-> coords.longitude, latitude |-> coords.latitude])

\* mutationFn: () => updateLocation(location.id, formData), with the
\* formData of the form's latest render.
mutationFn(variables, f) == updateLocation(editedLocation.id, f)

\* geocodeAddress resolves; its then-callback calls mutate, which builds a
\* mutation, makes it the observer's current one and runs mutationFn.
GeocodeResolves ==
    \E g \in geoReqs : \E coords \in GeocodeAnswers(g.address) :
        LET mid == Len(muts) + 1
            variables == MutateVariables(g.form, coords)
        IN /\ geoReqs' = geoReqs \ {g}
           /\ subs' = [subs EXCEPT ![g.sid].geo = "resolved",
                                   ![g.sid].coords = coords,
                                   ![g.sid].nUpd = @ + 1]
           /\ muts' = Append(muts, [sid |-> g.sid, status |-> "pending",
                                    variables |-> variables])
           /\ curMut' = mid
           /\ updReqs' = updReqs \cup
                  {[mid |-> mid, sid |-> g.sid, req |-> mutationFn(variables, formData)]}
           /\ UNCHANGED <<dbVars, console, formOpen, editedLocation, compVars, formData,
                          nEdits, pageVars,
                       apiCall, pcalls>>

\* geocodeAddress rejects: handleSubmit attached no rejection handler.
GeocodeRejects ==
    \E g \in geoReqs :
        /\ geoReqs' = geoReqs \ {g}
        /\ subs' = [subs EXCEPT ![g.sid].geo = "rejected"]
        /\ UNCHANGED <<dbVars, console, formOpen, editedLocation, compVars, formData, nEdits, muts,
                       updReqs,
                   curMut,
                       pageVars, apiCall, pcalls>>

OnSuccessClosesOnly ==
    /\ formOpen' = FALSE
    /\ UNCHANGED <<qcache, getReqs>>

\* onSuccess: invalidateQueries, which refetches the page's active query,
\* then onClose().
OnSuccess ==
    /\ qcache' = StartFetch(MarkInvalidated(qcache), CurrentKey)
    /\ getReqs' = getReqs \cup {[key |-> CurrentKey, params |-> CurrentParams, attempt |-> 0]}
    /\ formOpen' = FALSE

\* The backend answers an updateLocation request.
UpdateSucceeds ==
    \E u \in updReqs :
        /\ UpdateOk(locations, u.req, FALSE)
        /\ locations' = ApplyUpdate(locations, u.req)
        /\ updReqs' = updReqs \ {u}
        /\ muts' = [muts EXCEPT ![u.mid].status = "success"]
        /\ OnSuccess
        /\ UNCHANGED <<companies, circuits, profiles, authUser, console, editedLocation, compVars,
                       formData,
                       nEdits,
                       subs, geoReqs, curMut, filterVars, apiCall, pcalls>>

UpdateFailsAndRetries ==
    \E u \in updReqs :
        /\ IF subs[u.sid].nUpd < 2
           THEN /\ subs' = [subs EXCEPT ![u.sid].nUpd = @ + 1]
                /\ UNCHANGED <<muts, updReqs>>
           ELSE /\ updReqs' = updReqs \ {u}
                /\ muts' = [muts EXCEPT ![u.mid].status = "error"]
                /\ UNCHANGED subs
        /\ UNCHANGED <<dbVars, console, formOpen, editedLocation, compVars, formData, nEdits,
                       geoReqs,
                       curMut,
                       pageVars, apiCall, pcalls>>

UpdateFailsAndCloses ==
    \E u \in updReqs :
        /\ updReqs' = updReqs \ {u}
        /\ muts' = [muts EXCEPT ![u.mid].status = "error"]
        /\ formOpen' = FALSE
        /\ UNCHANGED <<dbVars, console, editedLocation, compVars, formData, nEdits, subs, geoReqs,
                       curMut, pageVars, apiCall, pcalls>>

\* The request fails: the mutation has no onError, and mutate() drops the
\* rejection.
UpdateFails ==
    \E u \in updReqs :
        /\ updReqs' = updReqs \ {u}
        /\ muts' = [muts EXCEPT ![u.mid].status = "error"]
        /\ UNCHANGED <<dbVars, console, formOpen, editedLocation, compVars, formData, nEdits, subs,
                       geoReqs,
                       curMut,
                       pageVars, apiCall, pcalls>>

\* Cancel button, or the modal's close: onClose()
Cancel ==
    /\ formOpen
    /\ formOpen' = FALSE
    /\ UNCHANGED <<dbVars, console, editedLocation, compVars, formData, nEdits, subs, geoReqs, muts,
                   updReqs, curMut,
                   pageVars, apiCall, pcalls>>

\* How often the query client repeats a failed fetch before the query fails.
QueryRetries == 0

GetLocationsRespondsToCurrentKey ==
    \E r \in getReqs : \E failed \in BOOLEAN :
        /\ getReqs' = getReqs \ {r}
        /\ qcache' = [Settle(qcache, CurrentKey,
                             getLocations(r.params, failed, locations, companies))
                         EXCEPT ![r.key].fetching = FALSE]
        /\ UNCHANGED <<dbVars, console, formVars, compVars, filterVars, apiCall, pcalls>>

\* The backend answers a getLocations request of the page's query; the
\* result goes to the query of the key the request was issued for.
GetLocationsResponds ==
    \E r \in getReqs : \E failed \in BOOLEAN :
        LET result == getLocations(r.params, failed, locations, companies)
        IN /\ IF result.outcome = "rejected" /\ r.attempt < QueryRetries
              THEN /\ getReqs' = (getReqs \ {r}) \cup {[r EXCEPT !.attempt = @ + 1]}
                   /\ UNCHANGED qcache
              ELSE /\ getReqs' = getReqs \ {r}
                   /\ qcache' = Settle(qcache, r.key, result)
           /\ UNCHANGED <<dbVars, console, formVars, compVars, filterVars, apiCall, pcalls>>

----------------------------------------------------------------------------
(* AddressForm *)

\* The value prop the parent passes for a location: street is its address.
AddressOf(l) ==
    [street |-> l.address, city |-> l.city, state |-> l.state, zip_code |-> l.zip_code,
     country |-> l.country]

InvalidAddressMessage == "Please enter a valid address"

\* What the user can type into the street, city and zip_code inputs.
AddressFieldInputs ==
    {<<"street", Empty>>, <<"street", <<"a">>>>, <<"city", <<"b">>>>,
     <<"zip_code", <<"7">>>>}

\* What StateSelect and CountrySelect can report.
StateInputs == {<<"T", "X">>, <<"N", "V">>}
CountryInputs == {<<"U">>, <<"C">>}

\* The condition of the effect: manual mode and street, city, state and
\* zip_code all truthy.
ShouldValidate(v, auto) ==
    ~auto /\ v.street # Empty /\ v.city # Empty /\ v.state # Empty /\ v.zip_code # Empty

\* validateAndUpdate up to its await: the call it leaves pending.
ValidationOf(v, auto) == [address |-> v, manual |-> ~auto, outcome |-> "pending"]

\* The render that follows an event, and the effect on [value,
\* isAutocompleteEnabled] after it; err is the validationError the event's
\* handler has set.
RenderAddressForm(v, auto, err) ==
    IF ShouldValidate(v, auto)
    THEN /\ Len(validations) < MaxValidations
         /\ isValidating' = TRUE
         /\ validationError' = Null
         /\ validations' = Append(validations, ValidationOf(v, auto))
    ELSE /\ validationError' = err
         /\ UNCHANGED <<isValidating, validations>>

AddressFormLeaves == <<dbVars, formVars, pageVars, apiCall, pcalls, uiVars, mapVars>>

handleManualToggle ==
    /\ isAutocompleteEnabled' = ~isAutocompleteEnabled
    /\ RenderAddressForm(addrValue, isAutocompleteEnabled', validationError)
    /\ UNCHANGED <<addrValue, console, AddressFormLeaves>>

handleAutocompleteSelect ==
    /\ isAutocompleteEnabled
    /\ \E a \in Addresses :
          /\ a # addrValue
          /\ addrValue' = a
    /\ RenderAddressForm(addrValue', isAutocompleteEnabled, validationError)
    /\ UNCHANGED <<isAutocompleteEnabled, console, AddressFormLeaves>>

\* The inputs are rendered in manual mode only.
handleFieldChange ==
    /\ ~isAutocompleteEnabled
    /\ \E e \in AddressFieldInputs :
          /\ addrValue[e[1]] # e[2]
          /\ addrValue' = [addrValue EXCEPT ![e[1]] = e[2]]
    /\ RenderAddressForm(addrValue', isAutocompleteEnabled, Null)
    /\ UNCHANGED <<isAutocompleteEnabled, console, AddressFormLeaves>>

StateSelectChange ==
    /\ ~isAutocompleteEnabled
    /\ \E st \in StateInputs :
          /\ addrValue.state # st
          /\ addrValue' = [addrValue EXCEPT !.state = st]
    /\ RenderAddressForm(addrValue', isAutocompleteEnabled, validationError)
    /\ UNCHANGED <<isAutocompleteEnabled, console, AddressFormLeaves>>

CountrySelectChange ==
    /\ ~isAutocompleteEnabled
    /\ \E c \in CountryInputs :
          /\ addrValue.country # c
          /\ addrValue' = [addrValue EXCEPT !.country = c]
    /\ RenderAddressForm(addrValue', isAutocompleteEnabled, validationError)
    /\ UNCHANGED <<isAutocompleteEnabled, console, AddressFormLeaves>>

\* LocationEditForm builds the value object anew in each of its renders, so
\* the effect runs again for an address that has not changed.
ParentRenders ==
    /\ ShouldValidate(addrValue, isAutocompleteEnabled)
    /\ RenderAddressForm(addrValue, isAutocompleteEnabled, validationError)
    /\ UNCHANGED <<addrValue, isAutocompleteEnabled, console, AddressFormLeaves>>

PendingValidations == {i \in 1..Len(validations) : validations[i].outcome = "pending"}

\* validateAndUpdate after its await, for a promise that fulfils.
ValidateAddressResolves ==
    \E i \in PendingValidations : \E isValid \in BOOLEAN :
        /\ validations' =
              [validations EXCEPT ![i].outcome = IF isValid THEN "valid" ELSE "invalid"]
        /\ validationError' = IF isValid THEN validationError ELSE InvalidAddressMessage
        /\ isValidating' = FALSE
        /\ UNCHANGED <<addrValue, isAutocompleteEnabled, console, AddressFormLeaves>>

\* validateAndUpdate after its await, for a promise that rejects.
ValidateAddressRejects ==
    \E i \in PendingValidations :
        /\ validations' = [validations EXCEPT ![i].outcome = "rejected"]
        /\ console' = console \cup {"Address validation failed:"}
        /\ isValidating' = FALSE
        /\ UNCHANGED <<addrValue, isAutocompleteEnabled, validationError, AddressFormLeaves>>

InitAddressForm ==
    /\ addrValue = AddressOf(FormLocation)
    /\ isAutocompleteEnabled = TRUE
    /\ isValidating = FALSE
    /\ validationError = Null
    /\ validations = << >>

----------------------------------------------------------------------------
(* LocationMap *)

\* The values a coordinate of a fetched location can be: null, a number or
\* a text.
NullCoord == [kind |-> "null", num |-> 0, text |-> Empty]
NumCoord(n) == [kind |-> "number", num |-> n, text |-> Empty]
TextCoord(s) == [kind |-> "string", num |-> 0, text |-> s]

\* !x: null, 0 and '' are falsy.
Falsy(x) ==
    \/ x.kind = "null"
    \/ x.kind = "number" /\ x.num = 0
    \/ x.kind = "string" /\ x.text = Empty

NaN == [nan |-> TRUE, v |-> 0]
Num(n) == [nan |-> FALSE, v |-> n]

Digits == {"0", "1", "2", "3", "4", "5", "6", "7", "8", "9"}

DigitValue(c) ==
    CASE c = "0" -> 0 [] c = "1" -> 1 [] c = "2" -> 2 [] c = "3" -> 3 [] c = "4" -> 4
      [] c = "5" -> 5 [] c = "6" -> 6 [] c = "7" -> 7 [] c = "8" -> 8 [] c = "9" -> 9

\* The value of the longest prefix of digits of s, read after acc.
RECURSIVE LeadingDigits(_, _)
LeadingDigits(s, acc) ==
    IF s = Empty \/ Head(s) \notin Digits THEN acc
    ELSE LeadingDigits(Tail(s), 10 * acc + DigitValue(Head(s)))

\* parseFloat of a text without fraction or exponent: leading blanks, a
\* sign, then digits up to the first character that is none; NaN when no digit
\* comes first.
RECURSIVE SkipBlanks(_)
SkipBlanks(s) == IF s # Empty /\ Head(s) = " " THEN SkipBlanks(Tail(s)) ELSE s

parseFloatText(s) ==
    LET t == SkipBlanks(s)
        signed == t # Empty /\ Head(t) \in {"-", "+"}
        body == IF signed THEN Tail(t) ELSE t
    IN IF body = Empty \/ Head(body) \notin Digits THEN NaN
       ELSE IF signed /\ Head(t) = "-" THEN Num(0 - LeadingDigits(body, 0))
       ELSE Num(LeadingDigits(body, 0))

\* parseFloat(x): a number is converted to its text and read back.
parseFloat(x) ==
    CASE x.kind = "number" -> Num(x.num)
      [] x.kind = "string" -> parseFloatText(x.text)
      [] OTHER -> NaN

\* Validate coordinates
InRange(lon, lat) ==
    /\ ~lon.nan /\ ~lat.nan
    /\ lon.v >= 0 - 180 /\ lon.v <= 180
    /\ lat.v >= 0 - 90 /\ lat.v <= 90

\* The locations the forEach adds a point for.
GetsPoint(l) ==
    /\ ~Falsy(l.longitude) /\ ~Falsy(l.latitude)
    /\ InRange(parseFloat(l.longitude), parseFloat(l.latitude))

\* The point feature of a location and its properties.
Feature(l, selectedId) ==
    [id |-> l.id,
     coordinates |-> <<parseFloat(l.longitude).v, parseFloat(l.latitude).v>>,
     selected |-> l.id = selectedId]

PointsOf(locs, selectedId) ==
    LET kept == SelectSeq(locs, GetsPoint)
    IN [i \in 1..Len(kept) |-> Feature(kept[i], selectedId)]

MapLocation(id, lon, lat) == [id |-> id, longitude |-> lon, latitude |-> lat]

Austin == MapLocation("m1", NumCoord(0 - 97), NumCoord(30))
Reno == MapLocation("m2", TextCoord(<<"-", "1", "1", "9">>), TextCoord(<<"3", "9">>))
Greenwich == MapLocation("m3", NumCoord(0), NumCoord(51))
OffMap == MapLocation("m4", NumCoord(200), NumCoord(10))
Unlocated == MapLocation("m5", NullCoord, NullCoord)
Unparsed == MapLocation("m6", TextCoord(<<"x">>), TextCoord(<<"3", "9">>))

\* The lists the parent passes as the locations prop.
LocationLists ==
    {<< >>, <<Austin, Reno>>, <<Reno, Unlocated>>, <<Austin, OffMap, Unparsed>>,
     <<Greenwich, Austin>>}

LocationIds == {"m1", "m2", "m3", "m4", "m5", "m6"}

NoPopup == 0

\* popup.close(): the popup leaves the map.
ClosePopup(open, p) == SelectSeq(open, LAMBDA q : q.id # p)

\* The effect that adds the location points, run with the props of the
\* render it follows: both sources are cleared and filled, the active popup
\* is closed, and one more click listener is added to the symbol layer.
SyncMarkers(locs, selectedId, select) ==
    /\ dataSource' = PointsOf(locs, selectedId)
    /\ clusterSource' = PointsOf(locs, selectedId)
    /\ popups' = IF activePopup # NoPopup THEN ClosePopup(popups, activePopup) ELSE popups
    /\ activePopup' = NoPopup
    /\ clickHandlers' = Append(clickHandlers, [select |-> select])

MapLeaves == <<dbVars, console, formVars, pageVars, apiCall, pcalls, uiVars, addrVars>>

\* The map's 'ready' event: the sources and layers exist, isMapReady is set,
\* and the effects run.
MapReady ==
    /\ ~isMapReady
    /\ isMapReady' = TRUE
    /\ SyncMarkers(mapLocations, selectedLocationId, onLocationSelect)
    /\ UNCHANGED <<mapLocations, selectedLocationId, onLocationSelect, nPopups, selectCalls,
                   nUpdates, MapLeaves>>

\* The parent renders with another locations list; it passes the same
\* onLocationSelect function or a new one.
LocationsChange ==
    /\ nUpdates < MaxUpdates
    /\ \E locs \in LocationLists : \E fresh \in BOOLEAN :
          /\ locs # mapLocations
          /\ mapLocations' = locs
          /\ onLocationSelect' = IF fresh THEN onLocationSelect + 1 ELSE onLocationSelect
          /\ IF isMapReady
             THEN SyncMarkers(locs, selectedLocationId, onLocationSelect')
             ELSE UNCHANGED <<dataSource, clusterSource, popups, activePopup, clickHandlers>>
    /\ nUpdates' = nUpdates + 1
    /\ UNCHANGED <<isMapReady, selectedLocationId, nPopups, selectCalls, MapLeaves>>

\* The parent renders with another selectedLocationId. The effect that adds
\* the points does not depend on it: it runs only if onLocationSelect is a new
\* function.
SelectionChanges ==
    /\ nUpdates < MaxUpdates
    /\ \E id \in LocationIds \cup {Null} : \E fresh \in BOOLEAN :
          /\ id # selectedLocationId
          /\ selectedLocationId' = id
          /\ onLocationSelect' = IF fresh THEN onLocationSelect + 1 ELSE onLocationSelect
          /\ IF isMapReady /\ fresh
             THEN SyncMarkers(mapLocations, id, onLocationSelect')
             ELSE UNCHANGED <<dataSource, clusterSource, popups, activePopup, clickHandlers>>
    /\ nUpdates' = nUpdates + 1
    /\ UNCHANGED <<isMapReady, mapLocations, nPopups, selectCalls, MapLeaves>>

\* The popups one click on the feature with this id opens: one per listener.
ClickPopups(id) ==
    [k \in 1..Len(clickHandlers) |-> [id |-> nPopups + k, location |-> id]]

\* A click on a marker of the symbol layer: every listener registered for
\* the layer runs.
MarkerClick ==
    /\ isMapReady
    /\ nPopups < MaxPopups
    /\ \E k \in 1..Len(dataSource) :
          LET id == dataSource[k].id
          IN /\ popups' = popups \o ClickPopups(id)
             /\ nPopups' = nPopups + Len(clickHandlers)
             /\ activePopup' = nPopups + Len(clickHandlers)
             /\ selectCalls' = selectCalls \o [h \in 1..Len(clickHandlers) |-> id]
    /\ UNCHANGED <<isMapReady, mapLocations, selectedLocationId, onLocationSelect, dataSource,
                   clusterSource, clickHandlers, nUpdates, MapLeaves>>

InitLocationMap ==
    /\ isMapReady = FALSE
    /\ mapLocations = << >>
    /\ selectedLocationId = Null
    /\ onLocationSelect = 0
    /\ dataSource = << >>
    /\ clusterSource = << >>
    /\ clickHandlers = << >>
    /\ popups = << >>
    /\ activePopup = NoPopup
    /\ nPopups = 0
    /\ selectCalls = << >>
    /\ nUpdates = 0

\* The page's view controls: the table view, the Add Location modal closed.
InitView == view = "table" /\ isModalOpen = FALSE

InitComponents == InitView /\ InitAddressForm /\ InitLocationMap

----------------------------------------------------------------------------
(* Initial states and specifications *)

InitPage ==
    /\ search = Empty /\ stateFilter = Empty /\ cityFilter = Empty
    /\ criticalityFilter = "" /\ companyFilter = ""
    /\ nChanges = 0

NoCall == [op |-> "none", failed |-> FALSE, result |-> Fulfilled(<< >>), sent |-> << >>,
           n |-> 0]

\* The edit form has just been opened on a row of the loaded list.
InitForm ==
    /\ InitDb
    /\ authUser = "u1"
    /\ InitPage
    /\ console = {}
    /\ qcache = [k \in {CurrentKey} |->
                   Settle(StartFetch(<< >>, k), k,
                          getLocations(CurrentParams, FALSE, locations, companies))[k]]
    /\ getReqs = {}
    /\ formOpen = TRUE
    /\ editedLocation = FormLocation
    /\ formData = InitialFormData(FormLocation)
    /\ nEdits = 0
    /\ subs = << >>
    /\ geoReqs = {}
    /\ muts = << >>
    /\ updReqs = {}
    /\ curMut = 0
    /\ apiCall = NoCall
    /\ pcalls = << >>
    /\ InitComponents

NextForm ==
    \/ AddressChange
    \/ HandleSubmit
    \/ GeocodeResolves
    \/ GeocodeRejects
    \/ UpdateSucceeds
    \/ UpdateFails
    \/ Cancel
    \/ GetLocationsResponds

SpecForm == InitForm /\ [][NextForm]_vars

\* The saves of the form and the refetches they start, with a backend that
\* answers every getLocations request.
NextSave ==
    \/ HandleSubmit
    \/ GeocodeResolves
    \/ UpdateSucceeds
    \/ UpdateFails
    \/ GetLocationsResponds

\* A getLocations request goes out of flight: the step GetLocationsResponds
\* takes once the request's attempts are over, and no other step of the
\* model.
GetLocationsAnswered == \E r \in getReqs : getReqs' = getReqs \ {r}

SpecSave == InitForm /\ [][NextSave]_vars /\ WF_getReqs(GetLocationsAnswered)

----------------------------------------------------------------------------
(* The edit form's field state: its opening on a row of the list, field    *)
(* edits and address changes.                                              *)

\* onRowClick / the card's onClick: setEditingLocation(location) mounts the
\* form on that row.
OpenEdit ==
    /\ ~formOpen
    /\ \E k \in 1..Len(Displayed) :
          /\ editedLocation' = Displayed[k]
          /\ formData' = InitialFormData(Displayed[k])
    /\ formOpen' = TRUE
    /\ UNCHANGED <<dbVars, console, nEdits, subs, geoReqs, muts, updReqs, curMut,
                   pageVars, apiCall, pcalls, compVars>>

\* The list is loaded and no row has been clicked yet.
InitEdit ==
    /\ InitDb
    /\ authUser = "u1"
    /\ InitPage
    /\ console = {}
    /\ qcache = [k \in {CurrentKey} |->
                   Settle(StartFetch(<< >>, k), k,
                          getLocations(CurrentParams, FALSE, locations, companies))[k]]
    /\ getReqs = {}
    /\ formOpen = FALSE
    /\ editedLocation = FormLocation
    /\ formData = InitialFormData(FormLocation)
    /\ nEdits = 0
    /\ subs = << >>
    /\ geoReqs = {}
    /\ muts = << >>
    /\ updReqs = {}
    /\ curMut = 0
    /\ apiCall = NoCall
    /\ pcalls = << >>
    /\ InitComponents

NextEdit ==
    \/ OpenEdit
    \/ HandleChange
    \/ AddressChange

SpecEdit == InitEdit /\ [][NextEdit]_vars

\* The form opened on FormLocation: field edits, submits and the requests
\* that the resolved geocodes send.
NextSubmit ==
    \/ HandleChange
    \/ HandleSubmit
    \/ GeocodeResolves

SpecSubmit == InitForm /\ [][NextSubmit]_vars

\* AddressForm, mounted by the edit form on the address of its location.
InitAddress == InitForm

NextAddress ==
    \/ handleManualToggle
    \/ handleAutocompleteSelect
    \/ handleFieldChange
    \/ StateSelectChange
    \/ CountrySelectChange
    \/ ParentRenders
    \/ ValidateAddressResolves
    \/ ValidateAddressRejects

SpecAddress == InitAddress /\ [][NextAddress]_vars

\* LocationMap, mounted before its parent has a list to pass.
InitMap == InitEdit

NextMap ==
    \/ MapReady
    \/ LocationsChange
    \/ SelectionChanges
    \/ MarkerClick

SpecMap == InitMap /\ [][NextMap]_vars

----------------------------------------------------------------------------
(* The operations of lib/api.ts, each called once with inputs from small   *)
(* sets and with the backend either serving or failing each request.       *)

NoPayload == << >>

\* if (error) throw error; return data;
ReturnData(failed, data) == Fulfilled(data)

ThrowIfError(failed, data) == IF failed THEN Rejected("error") ELSE Fulfilled(data)

\* The call is over: what it returned, what it sent, what it logged.
Finish(op, failed, result, sent, logs) ==
    /\ apiCall.n < MaxCalls
    /\ apiCall' = [op |-> op, failed |-> failed, result |-> result, sent |-> sent,
                   n |-> apiCall.n + 1]
    /\ console' = console \cup logs
    /\ UNCHANGED pcalls

\* .single(): exactly one row, or an error.
Single(rows) == Cardinality(rows) = 1

TheRow(rows) == CHOOSE r \in rows : TRUE

Rows(table) == {table[i] : i \in DOMAIN table}

\* The ids the backend has to give, per table, in the order it gives them.
IdPool(prefix) ==
    CASE prefix = "c" -> <<"c1", "c2", "c3", "c4", "c5", "c6">>
      [] prefix = "l" -> <<"l1", "l2", "l3", "l4", "l5", "l6">>
      [] prefix = "k" -> <<"k1", "k2", "k3", "k4", "k5", "k6">>
      [] OTHER -> <<"p1", "p2", "p3", "p4", "p5", "p6">>

\* The id the backend gives the next row of a table.
NextId(table, prefix) ==
    LET pool == IdPool(prefix)
    IN pool[CHOOSE n \in 1..Len(pool) :
                /\ pool[n] \notin DOMAIN table
                /\ \A k \in 1..(n - 1) : pool[k] \in DOMAIN table]

\* insert([payload]).select().single(): the backend fills id, created_at and
\* updated_at; a column the payload names takes the payload's value.
InsertRow(table, prefix, payload) ==
    LET id == NextId(table, prefix)
        row == Spread([id |-> id, created_at |-> ServerTime, updated_at |-> ServerTime],
                      payload)
    IN [i \in DOMAIN table \cup {id} |-> IF i = id THEN row ELSE table[i]]

InsertedRow(table, prefix, payload) == InsertRow(table, prefix, payload)[NextId(table, prefix)]

SearchTexts == {Empty, <<"a">>, <<"_">>, <<"b", ",">>}
StateTexts == {Empty, <<"T", "X">>}
CompanyIds == {"", "c1"}

CompaniesOr(s) ==
    Cond("name", s) \o <<",">> \o Cond("address_city", s) \o <<",">>
        \o Cond("address_state", s)

CompaniesQuery(filters) ==
    LET q0 == NewQuery
        q1 == IF TruthyText(filters.search) THEN WithOr(q0, CompaniesOr(filters.search)) ELSE q0
        q2 == IF TruthyText(filters.state) THEN WithEq(q1, "address_state", filters.state) ELSE q1
        q3 == IF TruthyText(filters.city) THEN WithEq(q2, "address_city", filters.city) ELSE q2
    IN q3

GetCompanies ==
    \E failed \in BOOLEAN : \E se \in SearchTexts : \E st \in StateTexts :
        LET q == CompaniesQuery([search |-> se, state |-> st, city |-> <<"b">>])
            bad == failed \/ ~QueryOk(q)
            data == IF bad THEN Null
                    ELSE SortByName({r \in Rows(companies) : RowMatches(r, q)})
        IN /\ Finish("getCompanies", bad, ThrowIfError(bad, data), NoPayload, {})
           /\ UNCHANGED <<dbVars, formVars, compVars, pageVars>>

GetCompany ==
    \E failed \in BOOLEAN : \E id \in {"c1", "c9"} :
        LET rows == {r \in Rows(companies) : r.id = id}
            bad == failed \/ ~Single(rows)
        IN /\ Finish("getCompany", bad,
                     ThrowIfError(bad, IF bad THEN Null ELSE TheRow(rows)), NoPayload, {})
           /\ UNCHANGED <<dbVars, formVars, compVars, pageVars>>

\* CompanyFormData
NewCompany ==
    [name |-> <<"B">>, street_address |-> <<"b">>, address_city |-> <<"a">>,
     address_state |-> <<"N", "V">>, address_zip |-> <<"8">>,
     address_country |-> <<"U">>, phone |-> <<"1">>, email |-> <<"e">>]

CreateCompany ==
    \E failed \in BOOLEAN :
        /\ companies' = IF failed THEN companies ELSE InsertRow(companies, "c", NewCompany)
        /\ Finish("createCompany", failed,
                  ThrowIfError(failed, InsertedRow(companies, "c", NewCompany)),
                  NewCompany, {})
        /\ UNCHANGED <<locations, circuits, profiles, authUser, formVars, compVars, pageVars>>

\* updateCompany(id, company): the request it sends.
updateCompany(id, company) ==
    [table |-> "companies", id |-> id,
     payload |-> Spread(company, [updated_at |-> ClientTime])]

UpdateCompany ==
    \E failed \in BOOLEAN : \E id \in {"c1", "c9"} :
        LET req == updateCompany(id, Spread(NewCompany, [website |-> NullText]))
            ok == UpdateOk(companies, req, failed)
        IN /\ companies' = IF ok THEN ApplyUpdate(companies, req) ELSE companies
           /\ Finish("updateCompany", ~ok,
                     ThrowIfError(~ok, IF ok THEN companies'[id] ELSE Null), req.payload, {})
           /\ UNCHANGED <<locations, circuits, profiles, authUser, formVars, compVars, pageVars>>

\* A location as a form hands it to createLocation or updateLocation.
NewLocation ==
    [name |-> <<"B", "a">>, address |-> <<"b">>, city |-> <<"a">>,
     state |-> <<"N", "V">>, zip_code |-> <<"8">>, country |-> <<"U">>,
     criticality |-> "Medium", site_description |-> Empty,
     critical_processes |-> Empty, active_users |-> 0, num_servers |-> 0,
     hosted_applications |-> Empty, company_id |-> "c1"]

UpdateLocation ==
    \E failed \in BOOLEAN : \E id \in {"l1", "l9"} :
        LET req == updateLocation(id, NewLocation)
            ok == UpdateOk(locations, req, failed)
        IN /\ locations' = IF ok THEN ApplyUpdate(locations, req) ELSE locations
           /\ Finish("updateLocation", ~ok,
                     ThrowIfError(~ok, IF ok THEN locations'[id] ELSE Null), req.payload, {})
           /\ UNCHANGED <<companies, circuits, profiles, authUser, formVars, compVars, pageVars>>

\* The equality filters the model passes: none, each one alone, and two
\* combinations of all four.
EqFilters ==
    {[state |-> Empty, city |-> Empty, criticality |-> "", company_id |-> ""],
     [state |-> <<"T", "X">>, city |-> Empty, criticality |-> "", company_id |-> ""],
     [state |-> Empty, city |-> <<"a">>, criticality |-> "", company_id |-> ""],
     [state |-> Empty, city |-> Empty, criticality |-> "High", company_id |-> ""],
     [state |-> Empty, city |-> Empty, criticality |-> "", company_id |-> "c1"],
     [state |-> <<"T", "X">>, city |-> <<"b">>, criticality |-> "High", company_id |-> "c1"],
     [state |-> <<"T", "X">>, city |-> <<"a">>, criticality |-> "Low", company_id |-> "c1"]}

LocationFilters ==
    {Spread(e, [search |-> se]) : e \in EqFilters, se \in SearchTexts \cup {UndefText}}

GetLocations ==
    \E failed \in BOOLEAN : \E filters \in LocationFilters :
        LET result == getLocations(filters, failed, locations, companies)
        IN /\ Finish("getLocations", result.outcome = "rejected", result, filters, {})
           /\ UNCHANGED <<dbVars, formVars, compVars, pageVars>>

GetLocation ==
    \E failed \in BOOLEAN : \E id \in {"l1", "l9"} :
        LET rows == {r \in Rows(locations) : r.id = id}
            bad == failed \/ ~Single(rows)
            data == IF bad THEN Null
                    ELSE Spread(TheRow(rows),
                                [company |-> IF TheRow(rows).company_id \in DOMAIN companies
                                             THEN companies[TheRow(rows).company_id]
                                             ELSE NoCompany])
        IN /\ Finish("getLocation", bad, ThrowIfError(bad, data), NoPayload, {})
           /\ UNCHANGED <<dbVars, formVars, compVars, pageVars>>

LocationDefaults ==
    [longitude |-> Null, latitude |-> Null]

CreateLocation ==
    \E failed \in BOOLEAN :
        LET payload == NewLocation
            row == Spread(LocationDefaults, payload)
        IN /\ locations' = IF failed THEN locations ELSE InsertRow(locations, "l", row)
           /\ Finish("createLocation", failed,
                     ThrowIfError(failed, InsertedRow(locations, "l", row)), payload, {})
           /\ UNCHANGED <<companies, circuits, profiles, authUser, formVars, compVars, pageVars>>

CircuitsOr(s) ==
    Cond("carrier", s) \o <<",">> \o Cond("type", s) \o <<",">> \o Cond("bandwidth", s)

CircuitsQuery(filters) ==
    LET q0 == NewQuery
        q1 == IF TruthyText(filters.search) THEN WithOr(q0, CircuitsOr(filters.search)) ELSE q0
        q2 == IF TruthyText(filters.carrier) THEN WithEq(q1, "carrier", filters.carrier) ELSE q1
        q3 == IF TruthyText(filters.type) THEN WithEq(q2, "type", filters.type) ELSE q2
        q4 == IF TruthyStr(filters.status) THEN WithEq(q3, "status", filters.status) ELSE q3
        q5 == IF TruthyStr(filters.location_id)
              THEN WithEq(q4, "location_id", filters.location_id) ELSE q4
    IN q5

NoLocation == [name |-> NullText, company |-> [name |-> NullText]]

\* location:locations(name, company:companies(name))
ExpandLocation(row, ls, cs) ==
    Spread(row, [location |->
        IF row.location_id \in DOMAIN ls
        THEN [name |-> ls[row.location_id].name,
              company |-> [name |-> ExpandCompany(ls[row.location_id], cs).company.name]]
        ELSE NoLocation])

GetCircuits ==
    \E failed \in BOOLEAN : \E se \in SearchTexts : \E st \in {"", "Active"} :
        LET q == CircuitsQuery([search |-> se, carrier |-> Empty, type |-> Empty,
                                status |-> st, location_id |-> ""])
            bad == failed \/ ~QueryOk(q)
            data == IF bad THEN Null
                    ELSE SortBy({ExpandLocation(r, locations, companies) :
                                    r \in {c \in Rows(circuits) : RowMatches(c, q)}},
                                "carrier")
        IN /\ Finish("getCircuits", bad, ThrowIfError(bad, data), NoPayload, {})
           /\ UNCHANGED <<dbVars, formVars, compVars, pageVars>>

GetCircuit ==
    \E failed \in BOOLEAN : \E id \in {"k1", "k9"} :
        LET rows == {r \in Rows(circuits) : r.id = id}
            bad == failed \/ ~Single(rows)
            data == IF bad THEN Null ELSE ExpandLocation(TheRow(rows), locations, companies)
        IN /\ Finish("getCircuit", bad, ThrowIfError(bad, data), NoPayload, {})
           /\ UNCHANGED <<dbVars, formVars, compVars, pageVars>>

\* A circuit as a form hands it to createCircuit or updateCircuit.
NewCircuit ==
    [carrier |-> <<"B">>, type |-> <<"a">>, purpose |-> <<"b">>,
     status |-> "Inactive", bandwidth |-> <<"1">>, monthlycost |-> NullCost,
     static_ips |-> 0, upload_bandwidth |-> NullText,
     contract_start_date |-> NullText, contract_term |-> 0,
     contract_end_date |-> NullText, billing |-> <<"b">>,
     usage_charges |-> FALSE, installation_cost |-> 0, notes |-> NullText,
     location_id |-> "l2"]

CreateCircuit ==
    \E failed \in BOOLEAN :
        /\ circuits' = IF failed THEN circuits ELSE InsertRow(circuits, "k", NewCircuit)
        /\ Finish("createCircuit", failed,
                  ThrowIfError(failed, InsertedRow(circuits, "k", NewCircuit)),
                  NewCircuit, {})
        /\ UNCHANGED <<companies, locations, profiles, authUser, formVars, compVars, pageVars>>

\* updateCircuit(id, circuit): the request it sends.
updateCircuit(id, circuit) ==
    [table |-> "circuits", id |-> id,
     payload |-> Spread(circuit, [updated_at |-> ClientTime])]

UpdateCircuit ==
    \E failed \in BOOLEAN : \E id \in {"k1", "k9"} :
        LET req == updateCircuit(id, NewCircuit)
            ok == UpdateOk(circuits, req, failed)
        IN /\ circuits' = IF ok THEN ApplyUpdate(circuits, req) ELSE circuits
           /\ Finish("updateCircuit", ~ok,
                     ThrowIfError(~ok, IF ok THEN circuits'[id] ELSE Null), req.payload, {})
           /\ UNCHANGED <<companies, locations, profiles, authUser, formVars, compVars, pageVars>>

\* What a call has sent to the tables when it threw before any request.
NoRequest == [request |-> "none"]

AuthSkipped(authFailed) == Fulfilled(authUser)

\* supabase.auth.getUser(), then the two checks that follow it.
AuthError(authFailed) ==
    IF authFailed THEN Rejected("authError")
    ELSE IF authUser = Null THEN Rejected("No authenticated user")
    ELSE Fulfilled(authUser)

ProfilesOf(uid) == {i \in DOMAIN profiles : profiles[i].user_id = uid}

ProfileEdit == [first_name |-> <<"a">>, phone |-> <<"1">>]

\* updateUserProfile(data): the payload of its update.
updateUserProfile(data) == Spread(data, [updated_at |-> ClientTime])

UpdateUserProfile ==
    \E authFailed \in BOOLEAN : \E failed \in BOOLEAN :
        LET auth == AuthError(authFailed)
            payload == updateUserProfile(ProfileEdit)
            ids == ProfilesOf(authUser)
            ok == ~failed /\ Cardinality(ids) = 1
            id == CHOOSE i \in ids : TRUE
        IN IF auth.outcome = "rejected"
           THEN /\ Finish("updateUserProfile", authFailed, auth, NoRequest, {})
                /\ UNCHANGED <<dbVars, formVars, compVars, pageVars>>
           ELSE /\ profiles' = IF ok THEN [profiles EXCEPT ![id] = Spread(@, payload)]
                               ELSE profiles
                /\ Finish("updateUserProfile", ~ok,
                          ThrowIfError(~ok, IF ok THEN profiles'[id] ELSE Null), payload, {})
                /\ UNCHANGED <<companies, locations, circuits, authUser, formVars, compVars,
                               pageVars>>

DashboardFilters == [company_id : CompanyIds, location_id : {"", "l1"}]

AllCircuits(filters) == Rows(circuits)

\* The circuits the dashboard query returns: the inner join drops a circuit
\* whose location is missing or fails the company filter.
DashboardCircuits(filters) ==
    {c \in Rows(circuits) :
        /\ c.location_id \in DOMAIN locations
        /\ TruthyStr(filters.location_id) => c.location_id = filters.location_id
        /\ TruthyStr(filters.company_id) =>
               locations[c.location_id].company_id = filters.company_id}

RECURSIVE SumCost(_)
SumCost(cs) ==
    IF cs = {} THEN 0
    ELSE LET c == CHOOSE x \in cs : TRUE
         IN (IF c.monthlycost = NullCost THEN 0 ELSE c.monthlycost) + SumCost(cs \ {c})

getDashboardStats(cs) ==
    [totalCircuits |-> Cardinality(cs),
     activeCircuits |-> Cardinality({c \in cs : c.status = "Active"}),
     inactiveCircuits |-> Cardinality({c \in cs : c.status = "Inactive"}),
     totalMonthlyCost |-> SumCost(cs)]

GetDashboardStats ==
    \E failed \in BOOLEAN : \E filters \in DashboardFilters :
        /\ Finish("getDashboardStats", failed,
                  ThrowIfError(failed, getDashboardStats(DashboardCircuits(filters))),
                  filters, {})
        /\ UNCHANGED <<dbVars, formVars, compVars, pageVars>>

NewAdminProfile(uid) == [user_id |-> uid, role |-> "admin"]

\* insert([{ user_id: user.id, role: 'viewer' }])
NewProfile(uid) == [user_id |-> uid, role |-> "viewer"]

ProfileDefaults ==
    [first_name |-> NullText, last_name |-> NullText, email |-> NullText,
     phone |-> NullText, address |-> NullText]

GetCurrentUserProfile ==
    \E authFailed \in BOOLEAN : \E selectFailed \in BOOLEAN : \E insertFailed \in BOOLEAN :
        LET auth == AuthError(authFailed)
            ids == ProfilesOf(authUser)
            selectBad == selectFailed \/ Cardinality(ids) > 1
            row == Spread(ProfileDefaults, NewProfile(authUser))
        IN IF auth.outcome = "rejected"
           THEN /\ Finish("getCurrentUserProfile", authFailed, auth, NoRequest, {})
                /\ UNCHANGED <<dbVars, formVars, compVars, pageVars>>
           ELSE IF selectBad
           THEN /\ Finish("getCurrentUserProfile", TRUE,
                          Rejected("Failed to fetch user profile"), NoPayload,
                          {"Error fetching user profile:"})
                /\ UNCHANGED <<dbVars, formVars, compVars, pageVars>>
           ELSE IF ids # {}
           THEN /\ Finish("getCurrentUserProfile", FALSE,
                          Fulfilled(profiles[CHOOSE i \in ids : TRUE]), NoPayload, {})
                /\ UNCHANGED <<dbVars, formVars, compVars, pageVars>>
           ELSE IF insertFailed
           THEN /\ Finish("getCurrentUserProfile", TRUE,
                          Rejected("Failed to create user profile"), NewProfile(authUser),
                          {"Error creating user profile:"})
                /\ UNCHANGED <<dbVars, formVars, compVars, pageVars>>
           ELSE /\ profiles' = InsertRow(profiles, "p", row)
                /\ Finish("getCurrentUserProfile", FALSE,
                          Fulfilled(InsertedRow(profiles, "p", row)), NewProfile(authUser), {})
                /\ UNCHANGED <<companies, locations, circuits, authUser, formVars, compVars,
                               pageVars>>

RECURSIVE SeqOf(_)
SeqOf(rows) ==
    IF rows = {} THEN << >>
    ELSE LET r == CHOOSE x \in rows : TRUE IN <<r>> \o SeqOf(rows \ {r})

GetUserProfiles ==
    \E failed \in BOOLEAN :
        /\ Finish("getUserProfiles", failed, ThrowIfError(failed, SeqOf(Rows(profiles))),
                  NoPayload, {})
        /\ UNCHANGED <<dbVars, formVars, compVars, pageVars>>

\* updateUserRole(userId, role): the payload of its update.
updateUserRole(role) == [role |-> role]

UpdateUserRole ==
    \E failed \in BOOLEAN : \E uid \in Users : \E role \in {"admin", "viewer"} :
        LET payload == updateUserRole(role)
            ids == ProfilesOf(uid)
            ok == ~failed /\ Cardinality(ids) = 1
            id == CHOOSE i \in ids : TRUE
        IN /\ profiles' = IF ok THEN [profiles EXCEPT ![id] = Spread(@, payload)]
                          ELSE profiles
           /\ Finish("updateUserRole", ~ok,
                     ThrowIfError(~ok, IF ok THEN profiles'[id] ELSE Null), payload, {})
           /\ UNCHANGED <<companies, locations, circuits, authUser, formVars, compVars, pageVars>>

\* The rows the get_environment_variable procedure reads.
Environment == [k \in {"AZURE_MAPS_KEY", "EMPTY_KEY"} |->
                  IF k = "AZURE_MAPS_KEY" THEN "key" ELSE ""]

\* getEnvironmentVariable: anything thrown inside the try block, an error of
\* the backend included, is logged and becomes the return value null.
getEnvironmentVariable(key, failed) ==
    IF failed \/ key \notin DOMAIN Environment
    THEN Fulfilled(Null)
    ELSE Fulfilled(IF TruthyStr(Environment[key]) THEN Environment[key] ELSE Null)

GetEnvironmentVariable ==
    \E failed \in BOOLEAN : \E key \in {"AZURE_MAPS_KEY", "EMPTY_KEY", "OTHER"} :
        LET bad == failed \/ key \notin DOMAIN Environment
        IN /\ Finish("getEnvironmentVariable", bad, getEnvironmentVariable(key, failed),
                     NoPayload,
                     IF bad THEN {"Error fetching environment variable"} ELSE {})
           /\ UNCHANGED <<dbVars, formVars, compVars, pageVars>>

\* The session changes: a user signs in or out.
AuthChanges ==
    /\ \E u \in Users \cup {Null} : authUser' = u
    /\ authUser' # authUser
    /\ UNCHANGED <<companies, locations, circuits, profiles, console, formVars, compVars, pageVars,
                   apiCall, pcalls>>

InitApi ==
    /\ InitDb
    /\ InitPage
    /\ authUser = Null
    /\ console = {}
    /\ qcache = << >>
    /\ getReqs = {}
    /\ formOpen = FALSE
    /\ editedLocation = FormLocation
    /\ formData = InitialFormData(FormLocation)
    /\ nEdits = 0
    /\ subs = << >>
    /\ geoReqs = {}
    /\ muts = << >>
    /\ updReqs = {}
    /\ curMut = 0
    /\ apiCall = NoCall
    /\ pcalls = << >>
    /\ InitComponents

NextApi ==
    \/ GetCompanies \/ GetCompany \/ CreateCompany \/ UpdateCompany
    \/ UpdateLocation \/ GetLocations \/ GetLocation \/ CreateLocation
    \/ GetCircuits \/ GetCircuit \/ CreateCircuit \/ UpdateCircuit
    \/ UpdateUserProfile \/ GetDashboardStats \/ GetCurrentUserProfile
    \/ GetUserProfiles \/ UpdateUserRole \/ GetEnvironmentVariable
    \/ AuthChanges

SpecApi == InitApi /\ [][NextApi]_vars

----------------------------------------------------------------------------
(* getCurrentUserProfile step by step: its three awaits (auth lookup,      *)
(* select, insert) are separate requests, and calls made by components     *)
(* that mount together interleave between them.                            *)

PendingCall(uid, pc) == [user |-> uid, pc |-> pc, outcome |-> "pending", value |-> ""]
EndedCall(uid, outcome, value) ==
    [user |-> uid, pc |-> "done", outcome |-> outcome, value |-> value]

\* await supabase.auth.getUser() and the two checks that follow it
BeginProfileCall ==
    /\ Len(pcalls) < MaxCalls
    /\ \E authFailed \in BOOLEAN :
          LET auth == AuthError(authFailed)
          IN pcalls' = Append(pcalls,
                 IF auth.outcome = "rejected"
                 THEN EndedCall(authUser, "rejected", auth.value)
                 ELSE PendingCall(authUser, "select"))
    /\ UNCHANGED <<dbVars, console, formVars, compVars, pageVars, apiCall>>

\* The select ... maybeSingle() is answered: an error, the user's row, or
\* no row, in which case the call goes on to insert one.
SelectProfileResponds ==
    \E k \in DOMAIN pcalls : \E selectFailed \in BOOLEAN :
        LET c == pcalls[k]
            ids == ProfilesOf(c.user)
        IN /\ c.pc = "select"
           /\ IF selectFailed \/ Cardinality(ids) > 1
              THEN /\ pcalls' = [pcalls EXCEPT ![k] =
                          EndedCall(c.user, "rejected", "Failed to fetch user profile")]
                   /\ console' = console \cup {"Error fetching user profile:"}
              ELSE /\ pcalls' = [pcalls EXCEPT ![k] =
                          IF ids # {}
                          THEN EndedCall(c.user, "fulfilled", CHOOSE i \in ids : TRUE)
                          ELSE PendingCall(c.user, "insert")]
                   /\ UNCHANGED console
           /\ UNCHANGED <<dbVars, formVars, compVars, pageVars, apiCall>>

\* The insert ... select().single() is answered.
InsertProfileResponds ==
    \E k \in DOMAIN pcalls : \E insertFailed \in BOOLEAN :
        LET c == pcalls[k]
            row == Spread(ProfileDefaults, NewProfile(c.user))
        IN /\ c.pc = "insert"
           /\ IF insertFailed
              THEN /\ pcalls' = [pcalls EXCEPT ![k] =
                          EndedCall(c.user, "rejected", "Failed to create user profile")]
                   /\ console' = console \cup {"Error creating user profile:"}
                   /\ UNCHANGED profiles
              ELSE /\ pcalls' = [pcalls EXCEPT ![k] =
                          EndedCall(c.user, "fulfilled", NextId(profiles, "p"))]
                   /\ profiles' = InsertRow(profiles, "p", row)
                   /\ UNCHANGED console
           /\ UNCHANGED <<companies, locations, circuits, authUser, formVars, compVars, pageVars,
                          apiCall>>

InitProfile == InitApi

NextProfile ==
    \/ BeginProfileCall
    \/ SelectProfileResponds
    \/ InsertProfileResponds
    \/ AuthChanges

SpecProfile == InitProfile /\ [][NextProfile]_vars

----------------------------------------------------------------------------
(* The Locations page: its filters and the query keyed by them. *)

\* What the model types into the search bar.
SearchInputs == {Empty, <<"a">>, <<"a", " ">>, <<"_">>}

\* filters.states and filters.cities: the values of the displayed rows.
StateOptions == {Displayed[k].state : k \in 1..Len(Displayed)}
CityOptions == {Displayed[k].city : k \in 1..Len(Displayed)}

CriticalityOptions == {"High", "Medium", "Low"}

CompanyOptions == DOMAIN companies

hasFilters ==
    \/ search # Empty \/ stateFilter # Empty \/ cityFilter # Empty
    \/ criticalityFilter # "" \/ companyFilter # ""

\* The render that follows a state change: the query observer moves to the
\* new key and fetches it, unless a request for that key is already in flight.
ObserveWhenIdle(key, params) ==
    IF NeedsRequest(qcache, key) /\ getReqs = {}
    THEN /\ qcache' = StartFetch(qcache, key)
         /\ getReqs' = getReqs \cup {[key |-> key, params |-> params, attempt |-> 0]}
    ELSE UNCHANGED <<qcache, getReqs>>

Observe(key, params) ==
    IF NeedsRequest(qcache, key)
    THEN /\ qcache' = StartFetch(qcache, key)
         /\ getReqs' = getReqs \cup {[key |-> key, params |-> params, attempt |-> 0]}
    ELSE UNCHANGED <<qcache, getReqs>>

\* One change of the filters, and the render it causes.
ChangeFilters(s, st, ci, cr, co) ==
    /\ nChanges < MaxChanges
    /\ <<s, st, ci, cr, co>> # <<search, stateFilter, cityFilter, criticalityFilter, companyFilter>>
    /\ search' = s /\ stateFilter' = st /\ cityFilter' = ci
    /\ criticalityFilter' = cr /\ companyFilter' = co
    /\ nChanges' = nChanges + 1
    /\ Observe(QueryKey(s, st, ci, cr, co), QueryParams(s, st, ci, cr, co))
    /\ UNCHANGED <<dbVars, console, formVars, compVars, apiCall, pcalls>>

SetSearch ==
    \E v \in SearchInputs :
        ChangeFilters(v, stateFilter, cityFilter, criticalityFilter, companyFilter)

SetStateFilter ==
    \E v \in StateOptions \cup {Empty} :
        ChangeFilters(search, v, cityFilter, criticalityFilter, companyFilter)

SetCityFilter ==
    \E v \in CityOptions \cup {Empty} :
        ChangeFilters(search, stateFilter, v, criticalityFilter, companyFilter)

SetCriticalityFilter ==
    \E v \in CriticalityOptions \cup {""} :
        ChangeFilters(search, stateFilter, cityFilter, v, companyFilter)

SetCompanyFilter ==
    \E v \in CompanyOptions \cup {""} :
        ChangeFilters(search, stateFilter, cityFilter, criticalityFilter, v)

clearFilters ==
    /\ hasFilters
    /\ ChangeFilters(Empty, Empty, Empty, "", "")

\* The page has mounted: the query for the empty filters is being fetched.
InitLocations ==
    /\ InitDb
    /\ InitPage
    /\ authUser = "u1"
    /\ console = {}
    /\ qcache = StartFetch(<< >>, CurrentKey)
    /\ getReqs = {[key |-> CurrentKey, params |-> CurrentParams, attempt |-> 0]}
    /\ formOpen = FALSE
    /\ editedLocation = FormLocation
    /\ formData = InitialFormData(FormLocation)
    /\ nEdits = 0
    /\ subs = << >>
    /\ geoReqs = {}
    /\ muts = << >>
    /\ updReqs = {}
    /\ curMut = 0
    /\ apiCall = NoCall
    /\ pcalls = << >>
    /\ InitComponents

NextLocations ==
    \/ SetSearch
    \/ SetStateFilter
    \/ SetCityFilter
    \/ SetCriticalityFilter
    \/ SetCompanyFilter
    \/ clearFilters
    \/ GetLocationsResponds

SpecLocations == InitLocations /\ [][NextLocations]_vars

ViewLeaves == <<dbVars, console, formVars, pageVars, apiCall, pcalls, addrVars, mapVars>>

\* ViewToggle onViewChange={setView}
SetView ==
    /\ \E v \in {"grid", "table"} :
          /\ v # view
          /\ view' = v
    /\ UNCHANGED <<isModalOpen, ViewLeaves>>

\* The Add Location button: setIsModalOpen(true)
OpenAddModal ==
    /\ ~isModalOpen
    /\ isModalOpen' = TRUE
    /\ UNCHANGED <<view, ViewLeaves>>

\* The Add Location modal's onClose: setIsModalOpen(false)
CloseAddModal ==
    /\ isModalOpen
    /\ isModalOpen' = FALSE
    /\ UNCHANGED <<view, ViewLeaves>>

\* The Locations page with its filters and its view controls.
NextFilters ==
    \/ SetSearch
    \/ SetStateFilter
    \/ SetCityFilter
    \/ SetCriticalityFilter
    \/ SetCompanyFilter
    \/ clearFilters
    \/ GetLocationsResponds
    \/ SetView
    \/ OpenAddModal
    \/ CloseAddModal

SpecFilters == InitLocations /\ [][NextFilters]_vars

----------------------------------------------------------------------------
(* Properties of the location edit form *)

Submits == 1..Len(subs)

\* C1: an updateLocation request exists only for a submit whose geocode has
\* resolved, and that geocode was asked for the address composed from the
\* form's address, city, state and zip_code as they were at the submit.
GeocodeThenSave ==
    /\ \A s \in Submits : subs[s].asked = FullAddress(subs[s].form)
    /\ \A s \in Submits : subs[s].nUpd > 0 => subs[s].geo = "resolved"
    /\ \A u \in updReqs : subs[u.sid].geo = "resolved"
    /\ \A m \in 1..Len(muts) : subs[muts[m].sid].geo = "resolved"

\* A save is in flight for a submit made after the address was edited.
GeocodeThenSaveWitness ==
    \E u \in updReqs :
        /\ subs[u.sid].geo = "resolved"
        /\ subs[u.sid].asked # FullAddress(InitialFormData(FormLocation))

\* C2: the record sent to updateLocation carries the longitude and latitude
\* that geocodeAddress returned for the submit.
SavedRecordCarriesCoords ==
    \A u \in updReqs :
        /\ {"longitude", "latitude"} \subseteq DOMAIN u.req.payload
        /\ u.req.payload["longitude"] = subs[u.sid].coords.longitude
        /\ u.req.payload["latitude"] = subs[u.sid].coords.latitude

\* C3: at most one updateLocation request is in flight at any time, and
\* no submit produces more than one.
SingleFlightSave ==
    /\ Cardinality(updReqs) <= 1
    /\ \A s \in Submits : subs[s].nUpd <= 1

FailedSubmits == {muts[m].sid : m \in {n \in 1..Len(muts) : muts[n].status = "error"}}

\* C5: a submit whose updateLocation request failed has had exactly that
\* one request, and none is in flight for it: only a new submit saves again.
NoRetryAfterFailure ==
    \A s \in FailedSubmits :
        /\ subs[s].nUpd = 1
        /\ \A u \in updReqs : u.sid # s
        /\ Cardinality({m \in 1..Len(muts) : muts[m].sid = s}) = 1

\* A save has failed, the form is still open and nothing is in flight.
NoRetryWitness ==
    /\ FailedSubmits # {}
    /\ formOpen
    /\ updReqs = {} /\ geoReqs = {}

\* The submit's error reached the console (the form renders no message).
Surfaced(s) == <<"submit", s>> \in console

\* C6: a submit whose geocode step has ended has an updateLocation request
\* or a surfaced error.
SubmitHasOutcome ==
    \A s \in Submits : subs[s].geo # "pending" => subs[s].nUpd > 0 \/ Surfaced(s)

----------------------------------------------------------------------------
(* Properties of the operations of lib/api.ts *)

\* C4 as stated: an operation whose backend request returned an error ends
\* rejected.
BackendErrorRejects == apiCall.failed => apiCall.result.outcome = "rejected"

\* C4 as amended: every operation but getEnvironmentVariable ends rejected
\* when its backend request returned an error; getEnvironmentVariable logs
\* the error and returns null.
BackendErrorRejectsOrIsLogged ==
    apiCall.failed =>
        IF apiCall.op = "getEnvironmentVariable"
        THEN /\ apiCall.result = Fulfilled(Null)
             /\ "Error fetching environment variable" \in console
        ELSE apiCall.result.outcome = "rejected"

\* The insert that creates a missing profile failed.
BackendErrorWitness ==
    /\ apiCall.failed
    /\ apiCall.op = "getCurrentUserProfile"
    /\ apiCall.result = Rejected("Failed to create user profile")

StampingUpdates == {"updateCompany", "updateLocation", "updateCircuit", "updateUserProfile"}

Writes ==
    StampingUpdates \cup
        {"createCompany", "createLocation", "createCircuit", "updateUserRole",
         "getCurrentUserProfile"}

AllRows == Rows(companies) \cup Rows(locations) \cup Rows(circuits) \cup Rows(profiles)

\* C7 as stated: no payload of a create or update carries a timestamp, and
\* the timestamps of every stored row are the backend's.
TimestampsServerAssigned ==
    /\ apiCall.op \in Writes => DOMAIN apiCall.sent \cap {"created_at", "updated_at"} = {}
    /\ \A r \in AllRows : r.created_at = ServerTime /\ r.updated_at = ServerTime

\* C7 as amended: created_at is never in a payload and is the backend's in
\* every row; creates and updateUserRole send no timestamp; updateCompany,
\* updateLocation, updateCircuit and updateUserProfile send updated_at read
\* from the client's clock.
CreatedAtServerAssigned ==
    /\ apiCall.op \in Writes => "created_at" \notin DOMAIN apiCall.sent
    /\ \A r \in AllRows : r.created_at = ServerTime
    /\ apiCall.op \in Writes \ StampingUpdates => "updated_at" \notin DOMAIN apiCall.sent
    /\ (apiCall.op \in StampingUpdates /\ apiCall.sent # NoPayload
           /\ apiCall.sent # NoRequest) =>
           /\ "updated_at" \in DOMAIN apiCall.sent
           /\ apiCall.sent["updated_at"] = ClientTime
    /\ apiCall.op \in StampingUpdates /\ apiCall.result.outcome = "fulfilled" =>
           apiCall.result.value.updated_at = ClientTime

\* updateLocation has stored a row whose updated_at is the client's.
TimestampWitness ==
    /\ apiCall.op = "updateLocation"
    /\ apiCall.result.outcome = "fulfilled"
    /\ "l1" \in DOMAIN locations /\ locations["l1"].updated_at = ClientTime
    /\ locations["l1"].created_at = ServerTime

\* text contains s, without regard to case
Contains(text, s) ==
    \E i \in 1..(Len(text) - Len(s) + 1) :
        SubSeq(LowerText(text), i, i + Len(s) - 1) = LowerText(s)

\* The locations C10 says getLocations(filters) returns.
ExpectedLocations(filters) ==
    {i \in DOMAIN locations :
        /\ TruthyText(filters.state) => locations[i].state = filters.state
        /\ TruthyText(filters.city) => locations[i].city = filters.city
        /\ TruthyStr(filters.criticality) => locations[i].criticality = filters.criticality
        /\ TruthyStr(filters.company_id) => locations[i].company_id = filters.company_id
        /\ TruthyText(filters.search) =>
               \/ Contains(locations[i].name, filters.search)
               \/ Contains(locations[i].address, filters.search)
               \/ Contains(locations[i].city, filters.search)
               \/ Contains(locations[i].state, filters.search)}

\* C10: a getLocations call that returns, returns exactly the locations
\* that pass every supplied filter and contain the search text, each with
\* its company expanded through company_id.
GetLocationsReturnsMatches ==
    apiCall.op = "getLocations" /\ apiCall.result.outcome = "fulfilled" =>
        LET rows == apiCall.result.value
        IN /\ {rows[k].id : k \in 1..Len(rows)} = ExpectedLocations(apiCall.sent)
           /\ Len(rows) = Cardinality(ExpectedLocations(apiCall.sent))
           /\ \A k \in 1..Len(rows) :
                  rows[k].company_id \in DOMAIN companies =>
                      /\ rows[k].company.id = rows[k].company_id
                      /\ rows[k].company.name = companies[rows[k].company_id].name

----------------------------------------------------------------------------
(* Properties of the Locations page *)

Blanks(n) == [i \in 1..n |-> " "]

\* t is s without its leading and trailing blanks.
IsTrimOf(t, s) ==
    /\ t # Empty => Head(t) # " " /\ t[Len(t)] # " "
    /\ \E i \in 0..Len(s) : \E j \in 0..Len(s) : s = Blanks(i) \o t \o Blanks(j)

\* C8: a filter change to a combination the cache does not hold issues, in
\* the same step, exactly one getLocations request, for the new
\* combination, with the search text trimmed and the other four filter values as they are.
FetchOnEveryFilterChange ==
    [][(nChanges' = nChanges + 1 /\
        QueryKey(search', stateFilter', cityFilter', criticalityFilter', companyFilter')
            \notin DOMAIN qcache)
       => \E r \in getReqs' :
             /\ r \notin getReqs
             /\ getReqs' = getReqs \cup {r}
             /\ r.key = QueryKey(search', stateFilter', cityFilter', criticalityFilter',
                                 companyFilter')
             /\ IF search' = Empty THEN r.params.search \in {UndefText, Empty}
                ELSE IsTrimOf(r.params.search, search')
             /\ r.params.state = stateFilter' /\ r.params.city = cityFilter'
             /\ r.params.criticality = criticalityFilter'
             /\ r.params.company_id = companyFilter']_vars

\* Two requests are in flight at once, one of them for a search typed with
\* a trailing blank and sent trimmed.
FetchOnChangeWitness ==
    /\ Cardinality(getReqs) >= 2
    /\ \E r \in getReqs : r.key[2] = <<"a", " ">> /\ r.params.search = <<"a">>

Settled == getReqs = {}

ResultFor(s, st, ci, cr, co) ==
    SelectLocations(LocationsQuery(QueryParams(s, st, ci, cr, co)), locations, companies)

\* C9 as stated: once every request has settled, the displayed list is the
\* result for the current filter values.
DisplayedIsCurrentResult ==
    Settled => Displayed = ResultFor(search, stateFilter, cityFilter, criticalityFilter,
                                     companyFilter)

\* C9 as amended: every query holds only the result of its own filter
\* combination; once every request has settled, the displayed list is the
\* result for the current filter values if a request for them has
\* succeeded, and is empty if none has.
DisplayedIsCurrentResultOrEmpty ==
    /\ \A k \in DOMAIN qcache :
          qcache[k].hasData => qcache[k].data = ResultFor(k[2], k[3], k[4], k[5], k[6])
    /\ Settled =>
          /\ CurrentKey \in DOMAIN qcache
          /\ ~qcache[CurrentKey].fetching
          /\ IF qcache[CurrentKey].hasData
             THEN Displayed = ResultFor(search, stateFilter, cityFilter, criticalityFilter,
                                        companyFilter)
             ELSE Displayed = << >> /\ qcache[CurrentKey].status = "error"

\* Everything has settled, the current combination shows its result, and the
\* cache also holds the different result of an earlier combination.
DisplayedWitness ==
    /\ Settled
    /\ nChanges >= 2
    /\ qcache[CurrentKey].hasData
    /\ \E k \in DOMAIN qcache :
          k # CurrentKey /\ qcache[k].hasData /\ qcache[k].data # Displayed

----------------------------------------------------------------------------
(* Properties of the user-profile operations of lib/api.ts *)

\* The stored role of every profile row.
Roles == [i \in DOMAIN profiles |-> profiles[i].role]

\* The calling user's own profile has role admin.
CallerIsAdmin ==
    \E i \in DOMAIN profiles :
        profiles[i].user_id = authUser /\ profiles[i].role = "admin"

\* A call of op finishes in this step.
Called(op) == apiCall'.n # apiCall.n /\ apiCall'.op = op

\* C12: a call of updateUserRole changes a stored role only when the calling
\* user's own profile has role admin; for a viewer or an unauthenticated
\* caller every stored role is unchanged.
RoleChangeAdminOnly ==
    [][(Called("updateUserRole") /\ Roles' # Roles) => CallerIsAdmin]_vars

\* C13: a call of getCurrentUserProfile leaves every existing profile row as
\* it is and adds no row but one with the caller's id and role viewer; when
\* it returns, it returns the caller's existing profile and has written
\* nothing, or, the caller having none, the row it has created.
ProfileCreatedOrReturned ==
    [][Called("getCurrentUserProfile") =>
          /\ \A i \in DOMAIN profiles :
                i \in DOMAIN profiles' /\ profiles'[i] = profiles[i]
          /\ \A j \in DOMAIN profiles' \ DOMAIN profiles :
                profiles'[j].user_id = authUser /\ profiles'[j].role = "viewer"
          /\ apiCall'.result.outcome = "fulfilled" =>
                IF ProfilesOf(authUser) = {}
                THEN \E j \in DOMAIN profiles' :
                        /\ DOMAIN profiles' = DOMAIN profiles \cup {j}
                        /\ j \notin DOMAIN profiles
                        /\ apiCall'.result.value = profiles'[j]
                ELSE /\ profiles' = profiles
                     /\ \E i \in ProfilesOf(authUser) :
                           apiCall'.result.value = profiles[i]]_vars

\* The first call made is by the new user u2, and has created and returned
\* the profile of u2.
ProfileCreatedWitness ==
    /\ apiCall.n = 1
    /\ apiCall.op = "getCurrentUserProfile"
    /\ apiCall.result.outcome = "fulfilled"
    /\ apiCall.result.value.user_id = "u2"
    /\ apiCall.result.value.role = "viewer"
    /\ Cardinality(DOMAIN profiles) = 2

\* C15: with no user signed in, or with the auth lookup failing, a call of
\* updateUserProfile or getCurrentUserProfile rejects with the auth error or
\* 'No authenticated user', has sent no request to user_profiles, has
\* changed no row and has logged nothing.
AuthRejectsFirst ==
    [][((Called("updateUserProfile") \/ Called("getCurrentUserProfile"))
        /\ (authUser = Null
            \/ (apiCall'.result.outcome = "rejected"
                /\ apiCall'.result.value = "authError")))
       => /\ apiCall'.result.outcome = "rejected"
          /\ apiCall'.result.value \in {"authError", "No authenticated user"}
          /\ apiCall'.sent = NoRequest
          /\ profiles' = profiles
          /\ console' = console]_vars

\* Nobody is signed in and updateUserProfile has rejected for that reason.
AuthRejectsWitness ==
    /\ authUser = Null
    /\ apiCall.op = "updateUserProfile"
    /\ apiCall.result = Rejected("No authenticated user")
    /\ apiCall.sent = NoRequest

----------------------------------------------------------------------------
(* Properties of getDashboardStats *)

\* The ids of the circuits that match the filters supplied.
MatchingCircuits(f) ==
    {i \in DOMAIN circuits :
        /\ f.location_id # "" => circuits[i].location_id = f.location_id
        /\ f.company_id # "" =>
               /\ circuits[i].location_id \in DOMAIN locations
               /\ locations[circuits[i].location_id].company_id = f.company_id}

RECURSIVE CostOf(_)
CostOf(ids) ==
    IF ids = {} THEN 0
    ELSE LET i == CHOOSE x \in ids : TRUE
             cost == circuits[i].monthlycost
         IN (IF cost = NullCost THEN 0 ELSE cost) + CostOf(ids \ {i})

\* C16: the statistics returned count the circuits matching the filters,
\* those of them that are Active, those that are Inactive, and sum their
\* monthly costs with a missing cost as 0.
DashboardStatsAreCounts ==
    (apiCall.op = "getDashboardStats" /\ apiCall.result.outcome = "fulfilled") =>
        LET stats == apiCall.result.value
            ids == MatchingCircuits(apiCall.sent)
        IN /\ stats.totalCircuits = Cardinality(ids)
           /\ stats.activeCircuits =
                  Cardinality({i \in ids : circuits[i].status = "Active"})
           /\ stats.inactiveCircuits =
                  Cardinality({i \in ids : circuits[i].status = "Inactive"})
           /\ stats.totalMonthlyCost = CostOf(ids)
           /\ stats.activeCircuits + stats.inactiveCircuits <= stats.totalCircuits

\* The statistics of location l1 while another location has a circuit too,
\* one without a monthly cost.
DashboardStatsWitness ==
    /\ apiCall.op = "getDashboardStats"
    /\ apiCall.result.outcome = "fulfilled"
    /\ apiCall.sent.location_id = "l1"
    /\ apiCall.result.value.totalCircuits = 1
    /\ \E i \in DOMAIN circuits :
          circuits[i].location_id # "l1" /\ circuits[i].monthlycost = NullCost

----------------------------------------------------------------------------
(* Properties of concurrent getCurrentUserProfile calls *)

\* The rows the calls of user u have returned.
ReturnedTo(u) ==
    {pcalls[k].value : k \in {j \in DOMAIN pcalls :
                                 pcalls[j].user = u /\ pcalls[j].outcome = "fulfilled"}}

\* C14: whatever the interleaving of getCurrentUserProfile calls, a user has
\* at most one profile row, and the calls of a user that returned have
\* returned that one row.
OneProfilePerUser ==
    \A u \in Users :
        /\ Cardinality(ProfilesOf(u)) <= 1
        /\ ReturnedTo(u) \subseteq ProfilesOf(u)

----------------------------------------------------------------------------
(* Properties of the edit form's field state *)

AddressFields == {"address", "city", "state", "zip_code", "country"}
NullableTextFields == {"site_description", "critical_processes", "hosted_applications"}
CountFields == {"active_users", "num_servers"}
FormFields ==
    {"name", "criticality", "company_id"} \cup AddressFields \cup NullableTextFields
        \cup CountFields

\* The location's values, a null text as '' and a missing count as 0.
ValuesOf(l) ==
    [f \in FormFields |->
        IF f \in NullableTextFields THEN (IF l[f] = NullText THEN Empty ELSE l[f])
        ELSE IF f \in CountFields THEN (IF l[f] = NullNumber THEN 0 ELSE l[f])
        ELSE l[f]]

\* In this step formData keeps its fields, and the value of each field of kept.
Keeps(kept) ==
    /\ DOMAIN formData' = DOMAIN formData
    /\ \A g \in kept : formData'[g] = formData[g]

\* C20: a change event replaces the value of one field of formData and an
\* address change those of the five address fields, every other field
\* keeping its value; the form opens with the values of the location.
FieldLevelEdits ==
    [][/\ nEdits' = nEdits + 1 =>
              \E f \in DOMAIN formData : Keeps(DOMAIN formData \ {f})
       /\ (formOpen /\ formOpen' /\ nEdits' = nEdits /\ formData' # formData) =>
              Keeps(DOMAIN formData \ AddressFields)
       /\ (~formOpen /\ formOpen') => formData' = ValuesOf(editedLocation')]_vars

\* The form was opened on l2, whose description is set and whose number of
\* servers is missing; its name and its address have been edited since.
FieldLevelWitness ==
    /\ formOpen
    /\ editedLocation.id = "l2"
    /\ nEdits >= 2
    /\ formData.name = Empty
    /\ formData.address # editedLocation.address
    /\ formData.site_description = <<"d">>
    /\ formData.num_servers = 0
    /\ formData.criticality = "Medium"

----------------------------------------------------------------------------
(* Properties of the requests the edit form sends *)

Criticalities == {"Low", "Medium", "High"}

NoSaveSucceeded == \A m \in 1..Len(muts) : muts[m].status # "success"

\* C19: once the form has been closed by Cancel, no updateLocation request
\* is issued on its behalf.
NoRequestAfterCancel ==
    [][(~formOpen /\ NoSaveSucceeded) => updReqs' \subseteq updReqs]_vars

\* The mutation m fails in this step.
Fails(m) == muts[m].status = "pending" /\ muts'[m].status = "error"

----------------------------------------------------------------------------
(* Properties of the list after a save *)

\* The mutation m succeeds in this step.
Succeeds(m) == muts[m].status = "pending" /\ muts'[m].status = "success"

SaveSucceeded == \E m \in 1..Len(muts) : muts[m].status = "success"

\* The list shows the stored records that match the current filters.
ShowsStored ==
    Displayed = ResultFor(search, stateFilter, cityFilter, criticalityFilter,
                          companyFilter)

\* The success of a save invalidates every cached locations query, starts
\* the refetch of the page's query and closes the modal.
SaveInvalidatesAndCloses ==
    \A m \in 1..Len(muts) :
        Succeeds(m) =>
            /\ ~formOpen'
            /\ \A k \in DOMAIN qcache' : qcache'[k].invalidated
            /\ qcache'[CurrentKey].fetching
            /\ \E r \in getReqs' : r.key = CurrentKey /\ r.params = CurrentParams

\* C17 as stated: the success of a save invalidates the cached locations
\* queries and closes the modal, and the list then eventually shows the
\* stored records.
SavedEventuallyShown ==
    /\ [][SaveInvalidatesAndCloses]_vars
    /\ SaveSucceeded ~> ShowsStored

\* C17 as amended: the success of a save invalidates the cached locations
\* queries, starts the refetch and closes the modal; the refetch is
\* eventually answered, and the list shows the stored records whenever the
\* last fetch of the page's query has succeeded.
SavedShownOnceRefetched ==
    /\ [][SaveInvalidatesAndCloses]_vars
    /\ SaveSucceeded ~> (Settled /\ (qcache[CurrentKey].status = "success" => ShowsStored))

\* A save has succeeded, the modal is closed, the refetch has been answered
\* and the list shows the saved row.
SavedShownWitness ==
    /\ SaveSucceeded
    /\ ~formOpen
    /\ Settled
    /\ qcache[CurrentKey].status = "success"
    /\ \E k \in 1..Len(Displayed) :
          Displayed[k].id = FormLocation.id /\ Displayed[k].updated_at = ClientTime


----------------------------------------------------------------------------
(* Properties of AddressForm *)

\* C21: the 'Validating address...' indicator (isValidating) is true exactly
\* while at least one validateAddress request is outstanding.
ValidatingWhileOutstanding == isValidating <=> PendingValidations # {}

\* The validations requested for the address the form shows now.
ValidationsOfCurrent ==
    {i \in 1..Len(validations) : validations[i].address = addrValue}

Latest(S) == CHOOSE i \in S : \A j \in S : j <= i

\* C22: once every validateAddress request has settled, the error is
\* displayed only if the latest validation of the current address returned
\* invalid; and every validation was requested in manual mode with street,
\* city, state and zip_code all non-empty.
ErrorReflectsCurrentAddress ==
    /\ (PendingValidations = {} /\ validationError # Null) =>
          /\ ValidationsOfCurrent # {}
          /\ validations[Latest(ValidationsOfCurrent)].outcome = "invalid"
    /\ \A i \in 1..Len(validations) :
          /\ validations[i].manual
          /\ validations[i].address.street # Empty /\ validations[i].address.city # Empty
          /\ validations[i].address.state # Empty /\ validations[i].address.zip_code # Empty


----------------------------------------------------------------------------
(* Properties of LocationMap *)

\* A location whose longitude is a number in [-180, 180] and whose latitude
\* is a number in [-90, 90].
ValidCoordinates(l) == InRange(parseFloat(l.longitude), parseFloat(l.latitude))

ListedValid ==
    {mapLocations[i].id : i \in {j \in 1..Len(mapLocations) : ValidCoordinates(mapLocations[j])}}

PointsFor(source, id) == Cardinality({i \in 1..Len(source) : source[i].id = id})

\* C23: whenever the map is ready, the point data source and the cluster
\* data source each hold exactly one point per listed location with valid
\* coordinates and no point for any other location.
OnePointPerValidLocation ==
    isMapReady =>
        \A id \in LocationIds :
            /\ PointsFor(dataSource, id) = (IF id \in ListedValid THEN 1 ELSE 0)
            /\ PointsFor(clusterSource, id) = (IF id \in ListedValid THEN 1 ELSE 0)


\* C24: one click on a marker opens exactly one popup and calls
\* onLocationSelect exactly once, with that marker's id, and at most one popup
\* is open on the map at any time.
OneClickOnePopup ==
    /\ [](Len(popups) <= 1)
    /\ [][nPopups' # nPopups =>
            /\ nPopups' = nPopups + 1
            /\ Len(popups') = 1
            /\ Len(selectCalls') = Len(selectCalls) + 1
            /\ selectCalls'[Len(selectCalls')] = popups'[1].location]_vars


\* C25: whenever the map is ready, the markers flagged selected on the map
\* are exactly those whose id equals the current selectedLocationId (none
\* when no location is selected).
SelectedFollowsUI ==
    isMapReady =>
        /\ \A i \in 1..Len(dataSource) :
              dataSource[i].selected <=> dataSource[i].id = selectedLocationId
        /\ \A i \in 1..Len(clusterSource) :
              clusterSource[i].selected <=> clusterSource[i].id = selectedLocationId


----------------------------------------------------------------------------
(* Properties of the filters of the Locations page *)

\* C26: once the fetch has settled, a non-empty selected state (or city)
\* filter value is among the options of its dropdown; and Clear Filters
\* resets all five filters to empty (hasFilters false) and leaves the view
\* mode and the modal state unchanged.
FilterOptionsConsistent ==
    /\ [](Settled =>
            /\ stateFilter # Empty => stateFilter \in StateOptions
            /\ cityFilter # Empty => cityFilter \in CityOptions)
    /\ [][clearFilters =>
            /\ search' = Empty /\ stateFilter' = Empty /\ cityFilter' = Empty
            /\ criticalityFilter' = "" /\ companyFilter' = ""
            /\ ~hasFilters'
            /\ view' = view /\ isModalOpen' = isModalOpen /\ formOpen' = formOpen]_vars

====
